---- MODULE Spec2Model ----
(***************************************************************************)
(* gridist: A* agents on a grid world under partial observability.         *)
(*                                                                         *)
(* The grid (terrain, belief, search scratch fields, episode counter), the *)
(* A* engine of search.rs with its BinaryHeap open set, the two agent      *)
(* policies of agent.rs and the run_once / run_trials harness of           *)
(* instance.rs.                                                            *)
(*                                                                         *)
(* Distances are f64 values, computed with f64's rounding.  The heuristic   *)
(* is Distance::octile and the cost function Distance::euclidean, as in    *)
(* the repository's tests.                                                 *)
(* An Option<T> is a sequence: << >> is None, <<v>> is Some(v).            *)
(***************************************************************************)
EXTENDS Integers, Sequences, FiniteSets, TLC

\* Bound on the number of harness calls (run_once, run_trials iterations)
\* made on one Instance.
MaxCalls == 2

(***************************************************************************)
(* Values                                                                  *)
(***************************************************************************)
None == << >>

Some(v) == <<v>>

Point(y, x) == [y |-> y, x |-> x]

\* A Distance is an f64.  Every one the program computes is a multiple of
\* 2^-52 below 32, so it is held as the integer it is a multiple by, split in
\* two: the value of [hi |-> hi, lo |-> lo] is (hi * 2^26 + lo) / 2^52.
Base == 67108864

F64(hi, lo) == [hi |-> hi, lo |-> lo]

\* carry from lo into hi
Norm(hi, lo) == F64(hi + lo \div Base, lo % Base)

\* n as f64
FromInt(n) == F64(n * Base, 0)

Zero == FromInt(0)

One == FromInt(1)

\* std::f64::consts::SQRT_2 = 6369051672525773 / 2^52
SQRT_2 == F64(94906265, 41892813)

\* The exponent e with 2^e <= x < 2^(e+1), for x >= 1
Binade(x) ==
    IF x.hi < 2 * Base THEN 0
    ELSE IF x.hi < 4 * Base THEN 1
    ELSE IF x.hi < 8 * Base THEN 2
    ELSE IF x.hi < 16 * Base THEN 3
    ELSE 4

\* Rounding of an exact result to the nearest f64, ties to even: the 53-bit
\* significand leaves multiples of 2^(e-52) in binade e.
Round(x) ==
    IF x.hi < Base THEN x
    ELSE LET m == 2 ^ Binade(x)
             r == x.lo % m
             down == x.lo - r
         IN  IF r = 0 THEN x
             ELSE IF 2 * r < m THEN F64(x.hi, down)
             ELSE IF 2 * r > m THEN Norm(x.hi, down + m)
             ELSE IF (down \div m) % 2 = 0 THEN F64(x.hi, down)
             ELSE Norm(x.hi, down + m)

\* f64 addition
Add(d, e) == Round(Norm(d.hi + e.hi, d.lo + e.lo))

\* SQRT_2 * n for the integer n as f64
TimesSqrt2(n) == Round(Norm(SQRT_2.hi * n, SQRT_2.lo * n))

\* f64::partial_cmp on two distances: "Less", "Equal" or "Greater".
PartialCmp(d, e) ==
    IF d.hi < e.hi THEN "Less"
    ELSE IF d.hi > e.hi THEN "Greater"
    ELSE IF d.lo < e.lo THEN "Less"
    ELSE IF d.lo > e.lo THEN "Greater"
    ELSE "Equal"

Abs(n) == IF n < 0 THEN 0 - n ELSE n

Max(m, n) == IF m > n THEN m ELSE n

Min(m, n) == IF m < n THEN m ELSE n

\* f64::sqrt of dy*dy + dx*dx, for the sums that are 2 or a square
Sqrt(n) ==
    IF n = 2 THEN SQRT_2
    ELSE FromInt(CHOOSE k \in 0..n : k * k = n)

\* Distance::euclidean
euclidean(from, to) ==
    LET dy == to.y - from.y
        dx == to.x - from.x
    IN  Sqrt(dy * dy + dx * dx)

\* Distance::octile
octile(from, to) ==
    LET dy == Abs(to.y - from.y)
        dx == Abs(to.x - from.x)
        cartesian == Max(dy, dx)
        diagonal == Min(dy, dx)
    IN  Add(FromInt(cartesian - diagonal), TimesSqrt2(diagonal))

(***************************************************************************)
(* Maps: the rows of a map file's body, one character per tile.            *)
(***************************************************************************)
Maps ==
    { << <<".", ".", ".">>,
         <<".", ".", ".">>,
         <<".", ".", ".">> >>,
      << <<".", ".", ".">>,
         <<".", "T", "W">>,
         <<"G", ".", ".">> >>,
      << <<".", ".", ".">>,
         <<".", "T", ".">>,
         <<".", "S", ".">> >>,
      << <<".", "@", ".">>,
         <<".", "O", ".">>,
         <<".", "T", ".">> >>,
      << <<".", ".", "T", ".">>,
         <<".", ".", ".", ".">> >> }

ParseTerrain(c) ==
    CASE c = "." -> "Ground"
      [] c = "G" -> "Ground"
      [] c = "@" -> "OutOfBounds"
      [] c = "O" -> "OutOfBounds"
      [] c = "T" -> "Trees"
      [] c = "S" -> "Swamp"
      [] c = "W" -> "Water"

Agents == {"AlwaysAstar", "RepeatedAstar"}

VARIABLES
    height, width,      \* Grid.height, Grid.width
    terrain,            \* Tile.terrain, per point
    belief,             \* Tile.belief, per point
    g, h, parent,       \* Tile search scratch fields, per point
    visited,            \* Tile.visited: the episode that last visited the tile
    episode,            \* Grid's episode counter
    agent,              \* which policy the Instance owns
    path,               \* RepeatedAstar.path: Option<Path>
    location,           \* Instance.location
    data,               \* Instance.data: the running Datum
    target,             \* run_once's target argument
    pc,                 \* where the harness is
    open,               \* astar's open set: the BinaryHeap's vector
    expansions,         \* astar's expansions local
    result,             \* astar's return value: Option<Data>
    ret,                \* act's return value: Option<{action, expansions}>
    caller,             \* who called run_once: "main" or "run_trials"
    calls,              \* run_once calls made so far
    returned,           \* history: what each run_once call returned, in order
    log,                \* history: the steps act has returned in this run
    rng,                \* build_trials' generator: its state
    trial_idx,          \* build_trials' loop counter
    trials,             \* build_trials' vector of accepted pairs
    bstart, bend,       \* run_trials' start and end arguments
    pending,            \* run_trials' loop: the pairs not yet run
    batches             \* each run_trials call: its arguments, pairs and results (Data)

vars == <<height, width, terrain, belief, g, h, parent, visited, episode,
          agent, path, location, data, target, pc, open, expansions, result,
          ret, caller, calls, returned, log, rng, trial_idx, trials, bstart,
          bend, pending, batches>>

gridvars == <<height, width, terrain>>

scratch == <<g, h, parent, visited>>

buildvars == <<rng, trial_idx, trials, bstart, bend>>

batchvars == <<pending, batches>>

Points == {Point(y, x) : y \in 0..(height - 1), x \in 0..(width - 1)}

DefaultDatum == [cost |-> Zero, steps |-> 0, episodes |-> 0, expansions |-> 0]

(***************************************************************************)
(* Grid and tiles                                                          *)
(***************************************************************************)
\* Grid::get that misses the last row and the last column
InBoundsShort(p) == p.y < height - 1 /\ p.x < width - 1

\* Grid::get that finds a tile one row and one column beyond the grid
InBoundsWide(p) == p.y <= height /\ p.x <= width

\* Grid::get is Some exactly for these points.
InBounds(p) == p.y < height /\ p.x < width

\* Point::neighbors: the eight slots in row-major order, None where a
\* coordinate would be below zero.
Slot(p, dy, dx) ==
    IF p.y + dy < 0 \/ p.x + dx < 0 THEN None
    ELSE Some(Point(p.y + dy, p.x + dx))

neighbors(p) ==
    << Slot(p, 0 - 1, 0 - 1), Slot(p, 0 - 1, 0), Slot(p, 0 - 1, 1),
       Slot(p, 0, 0 - 1),                        Slot(p, 0, 1),
       Slot(p, 1, 0 - 1),     Slot(p, 1, 0),     Slot(p, 1, 1) >>

\* A table that charges a diagonal slot 1 and an orthogonal slot sqrt(2)
COSTSwapped == <<One, SQRT_2, One, SQRT_2, SQRT_2, One, SQRT_2, One>>

\* The step cost of each neighbour slot.
COST == <<SQRT_2, One, SQRT_2, One, One, SQRT_2, One, SQRT_2>>

\* Terrain::passable that takes Swamp for passable too
TerrainPassableSwamp(t) ==
    IF t \in {"Ground", "Swamp"} THEN "Passable" ELSE "Impassable"

\* Terrain::passable
TerrainPassable(t) == IF t = "Ground" THEN "Passable" ELSE "Impassable"

\* look that takes every Unknown tile for Passable
TileLookOptimist(bel, q) ==
    IF bel[q] = "Unknown" THEN "Passable" ELSE bel[q]

\* Tile::look on the tile at q, given the beliefs bel
TileLook(bel, q) ==
    IF bel[q] = "Unknown" THEN TerrainPassable(terrain[q]) ELSE bel[q]

\* Grid::look(p): the beliefs after looking from p
look(bel, p) ==
    LET seen == {p} \cup {n \in Points : \E i \in 1..8 : neighbors(p)[i] = Some(n)}
    IN  [q \in Points |-> IF q \in seen THEN TileLook(bel, q) ELSE bel[q]]

\* forget that resets the Impassable beliefs only
forgetImpassable ==
    [q \in Points |-> IF belief[q] = "Impassable" THEN "Unknown" ELSE belief[q]]

\* Grid::forget: the beliefs after forgetting
forget == [q \in Points |-> "Unknown"]

\* freespace that takes an Unknown tile for blocked
freespaceKnown(q) == belief[q] = "Passable"

\* Tile::freespace: the belief-based passability the agents search with
freespace(q) == belief[q] # "Impassable"

\* passable that asks the belief where it is to ask the terrain
passableBelieved(q) == belief[q] # "Impassable"

\* Tile::passable: the terrain can be walked on
passable(q) == TerrainPassable(terrain[q]) = "Passable"

(***************************************************************************)
(* The open set: std's BinaryHeap over Node's ordering                     *)
(***************************************************************************)
Node(p, f, gg) == [point |-> p, f |-> f, g |-> gg]

\* Node's ordering with the comparison of g reversed as that of f is
CmpSmallerG(self, other) ==
    LET o == PartialCmp(other.f, self.f)
    IN  IF o = "Equal" THEN PartialCmp(other.g, self.g) ELSE o

\* Node's ordering with the comparison of f not reversed
CmpForward(self, other) ==
    LET o == PartialCmp(self.f, other.f)
    IN  IF o = "Equal" THEN PartialCmp(self.g, other.g) ELSE o

\* impl Ord for Node: self.cmp(other)
Cmp(self, other) ==
    LET o == PartialCmp(other.f, self.f)
    IN  IF o = "Equal" THEN PartialCmp(self.g, other.g) ELSE o

Swap(s, i, j) == [s EXCEPT ![i] = s[j], ![j] = s[i]]

\* BinaryHeap::sift_up(start, pos), positions counted from 1
RECURSIVE SiftUp(_, _, _)
SiftUp(s, start, pos) ==
    IF pos > start
    THEN LET up == pos \div 2
         IN  IF Cmp(s[pos], s[up]) # "Greater" THEN s
             ELSE SiftUp(Swap(s, pos, up), start, up)
    ELSE s

\* BinaryHeap::sift_down_to_bottom(pos): the hole goes down to a leaf along
\* the greater children, then the element sifts up again.
RECURSIVE SiftDownToBottom(_, _, _)
SiftDownToBottom(s, start, pos) ==
    LET child == 2 * pos
        right == child + 1
    IN  IF child <= Len(s)
        THEN LET c == IF right <= Len(s) /\ Cmp(s[child], s[right]) # "Greater"
                      THEN right ELSE child
             IN  SiftDownToBottom(Swap(s, pos, c), start, c)
        ELSE SiftUp(s, start, pos)

\* BinaryHeap::push
HeapPush(s, n) == SiftUp(Append(s, n), 1, Len(s) + 1)

\* BinaryHeap::pop on a non-empty heap: the node returned
HeapTop(s) == s[1]

\* BinaryHeap::pop on a non-empty heap: the heap left
HeapRest(s) ==
    IF Len(s) = 1 THEN << >>
    ELSE SiftDownToBottom([SubSeq(s, 1, Len(s) - 1) EXCEPT ![1] = s[Len(s)]], 1, 1)

(***************************************************************************)
(* astar                                                                   *)
(***************************************************************************)
\* The predicate astar is given: Tile::freespace for an agent's search,
\* Tile::passable for has_path.
Passes(predicate, n) ==
    IF predicate = "passable" THEN passable(n) ELSE freespace(n)

\* The neighbour loop that takes a tile any episode has visited as visited
RECURSIVE ExpandVisitedOnce(_, _, _, _, _, _, _)
ExpandVisitedOnce(i, st, point, gp, tgt, ep, predicate) ==
    IF i > 8 THEN st
    ELSE LET nb == neighbors(point)[i]
         IN  IF nb = None \/ ~InBounds(nb[1])
             THEN ExpandVisitedOnce(i + 1, st, point, gp, tgt, ep, predicate)
             ELSE LET n == nb[1]
                  IN  IF st.visited[n] = 0 /\ Passes(predicate, n)
                      THEN LET hh == octile(n, tgt)
                               gg == Add(gp, COST[i])
                           IN  ExpandVisitedOnce(i + 1,
                                   [g |-> [st.g EXCEPT ![n] = gg],
                                    h |-> [st.h EXCEPT ![n] = hh],
                                    parent |-> [st.parent EXCEPT ![n] = Some(point)],
                                    visited |-> [st.visited EXCEPT ![n] = ep],
                                    open |-> HeapPush(st.open, Node(n, Add(gg, hh), gg))],
                                   point, gp, tgt, ep, predicate)
                      ELSE ExpandVisitedOnce(i + 1, st, point, gp, tgt, ep, predicate)

\* The neighbour loop that takes the cost at a neighbour's position among the
\* neighbours present, not at its slot
RECURSIVE ExpandPresentOnly(_, _, _, _, _, _, _)
ExpandPresentOnly(i, st, point, gp, tgt, ep, predicate) ==
    IF i > 8 THEN st
    ELSE LET nb == neighbors(point)[i]
         IN  IF nb = None \/ ~InBounds(nb[1])
             THEN ExpandPresentOnly(i + 1, st, point, gp, tgt, ep, predicate)
             ELSE LET n == nb[1]
                  IN  IF st.visited[n] # ep /\ Passes(predicate, n)
                      THEN LET hh == octile(n, tgt)
                               gg == Add(gp, COST[Cardinality({j \in 1..i : neighbors(point)[j] # None})])
                           IN  ExpandPresentOnly(i + 1,
                                   [g |-> [st.g EXCEPT ![n] = gg],
                                    h |-> [st.h EXCEPT ![n] = hh],
                                    parent |-> [st.parent EXCEPT ![n] = Some(point)],
                                    visited |-> [st.visited EXCEPT ![n] = ep],
                                    open |-> HeapPush(st.open, Node(n, Add(gg, hh), gg))],
                                   point, gp, tgt, ep, predicate)
                      ELSE ExpandPresentOnly(i + 1, st, point, gp, tgt, ep, predicate)

\* The neighbour loop that visits a tile again when it reaches it with a
\* smaller g
RECURSIVE ExpandReopening(_, _, _, _, _, _, _)
ExpandReopening(i, st, point, gp, tgt, ep, predicate) ==
    IF i > 8 THEN st
    ELSE LET nb == neighbors(point)[i]
         IN  IF nb = None \/ ~InBounds(nb[1])
             THEN ExpandReopening(i + 1, st, point, gp, tgt, ep, predicate)
             ELSE LET n == nb[1]
                  IN  IF /\ \/ st.visited[n] # ep
                            \/ PartialCmp(Add(gp, COST[i]), st.g[n]) = "Less"
                         /\ Passes(predicate, n)
                      THEN LET hh == octile(n, tgt)
                               gg == Add(gp, COST[i])
                           IN  ExpandReopening(i + 1,
                                   [g |-> [st.g EXCEPT ![n] = gg],
                                    h |-> [st.h EXCEPT ![n] = hh],
                                    parent |-> [st.parent EXCEPT ![n] = Some(point)],
                                    visited |-> [st.visited EXCEPT ![n] = ep],
                                    open |-> HeapPush(st.open, Node(n, Add(gg, hh), gg))],
                                   point, gp, tgt, ep, predicate)
                      ELSE ExpandReopening(i + 1, st, point, gp, tgt, ep, predicate)

\* The neighbour loop of one expansion in episode ep towards tgt, from slot
\* i on.  st holds the scratch fields and the open set as the loop has left
\* them so far.
RECURSIVE Expand(_, _, _, _, _, _, _)
Expand(i, st, point, gp, tgt, ep, predicate) ==
    IF i > 8 THEN st
    ELSE LET nb == neighbors(point)[i]
         IN  IF nb = None \/ ~InBounds(nb[1])
             THEN Expand(i + 1, st, point, gp, tgt, ep, predicate)
             ELSE LET n == nb[1]
                  IN  IF st.visited[n] # ep /\ Passes(predicate, n)
                      THEN LET hh == octile(n, tgt)
                               gg == Add(gp, COST[i])
                           IN  Expand(i + 1,
                                   [g |-> [st.g EXCEPT ![n] = gg],
                                    h |-> [st.h EXCEPT ![n] = hh],
                                    parent |-> [st.parent EXCEPT ![n] = Some(point)],
                                    visited |-> [st.visited EXCEPT ![n] = ep],
                                    open |-> HeapPush(st.open, Node(n, Add(gg, hh), gg))],
                                   point, gp, tgt, ep, predicate)
                      ELSE Expand(i + 1, st, point, gp, tgt, ep, predicate)

\* The neighbour loop of a search that tests the terrain of a neighbour
ExpandFromTerrain(i, st, point, gp) ==
    Expand(i, st, point, gp, target, episode, "passable")

\* The neighbour loop in an agent's search
ExpandFrom(i, st, point, gp) ==
    Expand(i, st, point, gp, target, episode, "freespace")

\* extract_path that pushes the point before it looks for a parent
RECURSIVE extract_path_all(_)
extract_path_all(point) ==
    IF parent[point] = None THEN <<point>>
    ELSE <<point>> \o extract_path_all(parent[point][1])

\* extract_path(grid, end): from end back along the parents, end first
RECURSIVE extract_path(_)
extract_path(point) ==
    IF parent[point] = None THEN << >>
    ELSE <<point>> \o extract_path(parent[point][1])

Last(s) == s[Len(s)]

Front(s) == SubSeq(s, 1, Len(s) - 1)

\* extract_path on the parents par: from point back along them, point first
RECURSIVE PathIn(_, _)
PathIn(par, point) ==
    IF par[point] = None THEN << >>
    ELSE <<point>> \o PathIn(par, par[point][1])

\* astar up to its loop, in episode ep on the scratch fields sc: the source
\* visited and alone in the open set
Started(sc, source, tgt, ep) ==
    LET h0 == octile(source, tgt)
    IN  [g |-> [sc.g EXCEPT ![source] = Zero],
         h |-> [sc.h EXCEPT ![source] = h0],
         parent |-> [sc.parent EXCEPT ![source] = None],
         visited |-> [sc.visited EXCEPT ![source] = ep],
         open |-> HeapPush(<< >>, Node(source, Add(Zero, h0), Zero))]

\* astar's loop run to its end in episode ep, with the given predicate, after
\* n expansions: whether the target was popped, the expansions counted, and
\* the scratch fields as the loop leaves them.
RECURSIVE Search(_, _, _, _, _)
Search(st, tgt, ep, predicate, n) ==
    IF st.open = << >> THEN [found |-> FALSE, expansions |-> n, st |-> st]
    ELSE LET point == HeapTop(st.open).point
         IN  IF point = tgt THEN [found |-> TRUE, expansions |-> n + 1, st |-> st]
             ELSE Search(Expand(1, [st EXCEPT !.open = HeapRest(st.open)],
                                point, st.g[point], tgt, ep, predicate),
                         tgt, ep, predicate, n + 1)

\* Grid::has_path: a search with the terrain's passability
has_path(source, tgt) ==
    Search(Started([g |-> g, h |-> h, parent |-> parent, visited |-> visited],
                   source, tgt, episode + 1),
           tgt, episode + 1, "passable", 0)

(***************************************************************************)
(* The generator build_trials draws from.  StdRng belongs to the rand      *)
(* crate; build_trials uses it as a stream of numbers that the seed slice  *)
(* [seed, height, width] determines.  It is held here as a linear          *)
(* congruential generator that gives out the high bits of its state.       *)
(***************************************************************************)
Modulus == 65536

Multiplier == 25173

Increment == 13849

OutputMax == 255

Advance(r) == (Multiplier * r + Increment) % Modulus

Output(r) == r \div (Modulus \div (OutputMax + 1))

\* SeedableRng::from_seed([seed, height, width])
from_seed(seed, hh, ww) == Advance(((seed * 31 + hh) * 31 + ww) % Modulus)

\* Range::new(0, range).ind_sample(rng): numbers at or above the last whole
\* multiple of range are drawn again
RECURSIVE ind_sample(_, _)
ind_sample(range, r) ==
    LET next == Advance(r)
        zone == OutputMax - (OutputMax % range)
    IN  IF Output(next) < zone
        THEN [value |-> Output(next) % range, rng |-> next]
        ELSE ind_sample(range, next)

\* The candidate pair build_trials draws next
Candidate(r) ==
    LET sy == ind_sample(height, r)
        sx == ind_sample(width, sy.rng)
        ty == ind_sample(height, sx.rng)
        tx == ind_sample(width, ty.rng)
    IN  [source |-> Point(sy.value, sx.value),
         target |-> Point(ty.value, tx.value),
         rng |-> tx.rng]

(***************************************************************************)
(* Initial state: a parsed grid, a fresh agent, a fresh Instance           *)
(***************************************************************************)
Init ==
    /\ \E m \in Maps :
          /\ height = Len(m)
          /\ width = Len(m[1])
          /\ terrain = [p \in {Point(y, x) : y \in 0..(Len(m) - 1), x \in 0..(Len(m[1]) - 1)}
                          |-> ParseTerrain(m[p.y + 1][p.x + 1])]
    /\ belief = [p \in DOMAIN terrain |-> "Unknown"]
    /\ g = [p \in DOMAIN terrain |-> Zero]
    /\ h = [p \in DOMAIN terrain |-> Zero]
    /\ parent = [p \in DOMAIN terrain |-> None]
    /\ visited = [p \in DOMAIN terrain |-> 0]
    /\ episode = 0
    /\ agent \in Agents
    /\ path = None
    /\ location = Point(0, 0)
    /\ data = DefaultDatum
    /\ target = Point(0, 0)
    /\ pc = "idle"
    /\ open = << >>
    /\ expansions = 0
    /\ result = None
    /\ ret = None
    /\ caller = "main"
    /\ calls = 0
    /\ returned = << >>
    /\ log = << >>
    /\ rng = 0
    /\ trial_idx = 0
    /\ trials = << >>
    /\ bstart = 0
    /\ bend = 0
    /\ pending = << >>
    /\ batches = << >>

\* The points the harness is asked to run between.
Endpoints == {Point(0, 0), Point(0, width - 1), Point(height - 1, width - 1)}

(***************************************************************************)
(* Instance::run_once, up to its loop                                      *)
(***************************************************************************)
\* run_once that keeps the statistics of the run before
RunOnceNoReset(source, tgt) ==
    /\ pc = "idle"
    /\ calls < MaxCalls
    /\ calls' = calls + 1
    /\ data' = data
    /\ path' = None
    /\ location' = source
    /\ target' = tgt
    /\ belief' = look(belief, source)
    /\ caller' = "main"
    /\ log' = << >>
    /\ pc' = "act"
    /\ UNCHANGED <<buildvars, batchvars, gridvars, scratch, episode, agent, open, expansions, result,
                   ret, returned>>

\* run_once that forgets the beliefs before it looks
RunOnceForgetting(source, tgt) ==
    /\ pc = "idle"
    /\ calls < MaxCalls
    /\ calls' = calls + 1
    /\ data' = DefaultDatum
    /\ path' = None
    /\ location' = source
    /\ target' = tgt
    /\ belief' = look(forget, source)
    /\ caller' = "main"
    /\ log' = << >>
    /\ pc' = "act"
    /\ UNCHANGED <<buildvars, batchvars, gridvars, scratch, episode, agent, open, expansions, result,
                   ret, returned>>

\* run_once that does not reset the agent
RunOnceKeepPath(source, tgt) ==
    /\ pc = "idle"
    /\ calls < MaxCalls
    /\ calls' = calls + 1
    /\ data' = DefaultDatum
    /\ path' = path
    /\ location' = source
    /\ target' = tgt
    /\ belief' = look(belief, source)
    /\ caller' = "main"
    /\ log' = << >>
    /\ pc' = "act"
    /\ UNCHANGED <<buildvars, batchvars, gridvars, scratch, episode, agent, open, expansions, result,
                   ret, returned>>

\* Instance::run_once up to its loop: the data and the agent reset, the
\* location set, the look from it
RunOnce(source, tgt) ==
    /\ pc = "idle"
    /\ calls < MaxCalls
    /\ calls' = calls + 1
    /\ data' = DefaultDatum
    /\ path' = None
    /\ location' = source
    /\ target' = tgt
    /\ belief' = look(belief, source)
    /\ caller' = "main"
    /\ log' = << >>
    /\ pc' = "act"
    /\ UNCHANGED <<buildvars, batchvars, gridvars, scratch, episode, agent, open, expansions, result,
                   ret, returned>>

\* run_trials' loop without the forget
RunTrialRemembering(source, tgt) ==
    /\ pc = "idle"
    /\ data' = DefaultDatum
    /\ path' = None
    /\ location' = source
    /\ target' = tgt
    /\ belief' = look(belief, source)
    /\ caller' = "run_trials"
    /\ log' = << >>
    /\ pc' = "act"
    /\ UNCHANGED <<buildvars, batches, gridvars, scratch, episode, agent, open, expansions, result,
                   ret, returned>>

\* One iteration of run_trials' loop: forget, then run_once up to its loop
RunTrial(source, tgt) ==
    /\ pc = "idle"
    /\ data' = DefaultDatum
    /\ path' = None
    /\ location' = source
    /\ target' = tgt
    /\ belief' = look(forget, source)
    /\ caller' = "run_trials"
    /\ log' = << >>
    /\ pc' = "act"
    /\ UNCHANGED <<buildvars, batches, gridvars, scratch, episode, agent, open, expansions, result,
                   ret, returned>>

\* An iteration of run_trials' loop for a pair build_trials can return
AnyTrial(source, tgt) ==
    /\ calls < MaxCalls
    /\ calls' = calls + 1
    /\ RunTrial(source, tgt)
    /\ UNCHANGED pending

(***************************************************************************)
(* Agent::act                                                              *)
(***************************************************************************)
\* RepeatedAstar holds a next step
HasNext == path # None /\ path[1] # << >>

\* follow_path that reads the next step and leaves it on the path
FollowedKeep == path

\* RepeatedAstar::follow_path: the path left after the pop
Followed == IF HasNext THEN Some(Front(path[1])) ELSE path

\* What act returns for a step taken from the cached path
FollowDatum(next) == [action |-> next, expansions |-> 0]

\* What act returns for the first step of a path astar has just found
SearchDatum(next, n) == [action |-> next, expansions |-> n]

\* RepeatedAstar::act that returns the cached step without asking whether
\* it is free
ActFollowBlind ==
    /\ pc = "act"
    /\ agent = "RepeatedAstar"
    /\ HasNext
    /\ path' = Followed
    /\ ret' = Some(FollowDatum(Last(path[1])))
    /\ pc' = "step"
    /\ UNCHANGED <<buildvars, batchvars, gridvars, belief, scratch, episode, agent, location, data,
                   target, open, expansions, result, caller, calls, returned, log>>

\* RepeatedAstar::act, the cached step is still free: return it
ActFollow ==
    /\ pc = "act"
    /\ agent = "RepeatedAstar"
    /\ HasNext
    /\ freespace(Last(path[1]))
    /\ path' = Followed
    /\ ret' = Some(FollowDatum(Last(path[1])))
    /\ pc' = "step"
    /\ UNCHANGED <<buildvars, batchvars, gridvars, belief, scratch, episode, agent, location, data,
                   target, open, expansions, result, caller, calls, returned, log>>

\* astar that searches in the episode of the search before
ActSearchSameEpisode ==
    /\ pc = "act"
    /\ agent = "RepeatedAstar" => ~(HasNext /\ freespace(Last(path[1])))
    /\ path' = IF agent = "RepeatedAstar" THEN Followed ELSE path
    /\ episode' = episode
    /\ LET h0 == octile(location, target)
       IN  /\ g' = [g EXCEPT ![location] = Zero]
           /\ h' = [h EXCEPT ![location] = h0]
           /\ parent' = [parent EXCEPT ![location] = None]
           /\ visited' = [visited EXCEPT ![location] = episode]
           /\ open' = HeapPush(<< >>, Node(location, Add(Zero, h0), Zero))
    /\ expansions' = 0
    /\ pc' = "search"
    /\ UNCHANGED <<buildvars, batchvars, gridvars, belief, agent, location, data, target, result,
                   ret, caller, calls, returned, log>>

\* astar that leaves the source the parent it had
ActSearchKeepParent ==
    /\ pc = "act"
    /\ agent = "RepeatedAstar" => ~(HasNext /\ freespace(Last(path[1])))
    /\ path' = IF agent = "RepeatedAstar" THEN Followed ELSE path
    /\ episode' = episode + 1
    /\ LET h0 == octile(location, target)
       IN  /\ g' = [g EXCEPT ![location] = Zero]
           /\ h' = [h EXCEPT ![location] = h0]
           /\ parent' = parent
           /\ visited' = [visited EXCEPT ![location] = episode + 1]
           /\ open' = HeapPush(<< >>, Node(location, Add(Zero, h0), Zero))
    /\ expansions' = 0
    /\ pc' = "search"
    /\ UNCHANGED <<buildvars, batchvars, gridvars, belief, agent, location, data, target, result,
                   ret, caller, calls, returned, log>>

\* act calls astar: AlwaysAstar on every call, RepeatedAstar when it has no
\* free cached step.  astar up to its loop: a new episode, the source visited
\* and pushed.
ActSearch ==
    /\ pc = "act"
    /\ agent = "RepeatedAstar" => ~(HasNext /\ freespace(Last(path[1])))
    /\ path' = IF agent = "RepeatedAstar" THEN Followed ELSE path
    /\ episode' = episode + 1
    /\ LET h0 == octile(location, target)
       IN  /\ g' = [g EXCEPT ![location] = Zero]
           /\ h' = [h EXCEPT ![location] = h0]
           /\ parent' = [parent EXCEPT ![location] = None]
           /\ visited' = [visited EXCEPT ![location] = episode + 1]
           /\ open' = HeapPush(<< >>, Node(location, Add(Zero, h0), Zero))
    /\ expansions' = 0
    /\ pc' = "search"
    /\ UNCHANGED <<buildvars, batchvars, gridvars, belief, agent, location, data, target, result,
                   ret, caller, calls, returned, log>>

\* One iteration of astar's loop that pops a point other than the target
AstarExpand ==
    /\ pc = "search"
    /\ open # << >>
    /\ HeapTop(open).point # target
    /\ expansions' = expansions + 1
    /\ LET point == HeapTop(open).point
           st == ExpandFrom(1, [g |-> g, h |-> h, parent |-> parent,
                                visited |-> visited, open |-> HeapRest(open)],
                            point, g[point])
       IN  /\ g' = st.g
           /\ h' = st.h
           /\ parent' = st.parent
           /\ visited' = st.visited
           /\ open' = st.open
    /\ UNCHANGED <<buildvars, batchvars, gridvars, belief, episode, agent, path, location, data,
                   target, pc, result, ret, caller, calls, returned, log>>

\* The iteration that pops the target without counting that pop
AstarFoundUncounted ==
    /\ pc = "search"
    /\ open # << >>
    /\ HeapTop(open).point = target
    /\ result' = Some([path |-> extract_path(target), expansions |-> expansions])
    /\ open' = << >>
    /\ expansions' = 0
    /\ pc' = "return"
    /\ UNCHANGED <<buildvars, batchvars, gridvars, belief, scratch, episode, agent, path, location,
                   data, target, ret, caller, calls, returned, log>>

\* The iteration that pops the target: astar returns the path
AstarFound ==
    /\ pc = "search"
    /\ open # << >>
    /\ HeapTop(open).point = target
    /\ result' = Some([path |-> extract_path(target), expansions |-> expansions + 1])
    /\ open' = << >>
    /\ expansions' = 0
    /\ pc' = "return"
    /\ UNCHANGED <<buildvars, batchvars, gridvars, belief, scratch, episode, agent, path, location,
                   data, target, ret, caller, calls, returned, log>>

\* The open set is exhausted: astar returns None
AstarExhausted ==
    /\ pc = "search"
    /\ open = << >>
    /\ result' = None
    /\ expansions' = 0
    /\ pc' = "return"
    /\ UNCHANGED <<buildvars, batchvars, gridvars, belief, scratch, episode, agent, path, location,
                   data, target, open, ret, caller, calls, returned, log>>

\* act that keeps the old cached path when astar has found none
ActReturnStale ==
    /\ pc = "return"
    /\ IF result = None
       THEN /\ ret' = None
            /\ path' = path
       ELSE LET new == result[1].path
            IN  /\ ret' = IF new = << >> THEN None
                          ELSE Some(SearchDatum(Last(new), result[1].expansions))
                /\ path' = IF agent = "RepeatedAstar"
                           THEN Some(IF new = << >> THEN new ELSE Front(new))
                           ELSE path
    /\ result' = None
    /\ pc' = "step"
    /\ UNCHANGED <<buildvars, batchvars, gridvars, belief, scratch, episode, agent, location, data,
                   target, open, expansions, caller, calls, returned, log>>

\* act, after astar has returned: the first step of the new path
ActReturn ==
    /\ pc = "return"
    /\ IF result = None
       THEN /\ ret' = None
            /\ path' = IF agent = "RepeatedAstar" THEN None ELSE path
       ELSE LET new == result[1].path
            IN  /\ ret' = IF new = << >> THEN None
                          ELSE Some(SearchDatum(Last(new), result[1].expansions))
                /\ path' = IF agent = "RepeatedAstar"
                           THEN Some(IF new = << >> THEN new ELSE Front(new))
                           ELSE path
    /\ result' = None
    /\ pc' = "step"
    /\ UNCHANGED <<buildvars, batchvars, gridvars, belief, scratch, episode, agent, location, data,
                   target, open, expansions, caller, calls, returned, log>>

(***************************************************************************)
(* run_once's loop body                                                    *)
(***************************************************************************)
\* Counting that tests the run's expansions instead of the datum's
CountedSelf(d) ==
    IF data.expansions > 0
    THEN [data EXCEPT !.episodes = @ + 1, !.expansions = @ + d.expansions]
    ELSE data

\* The statistics after act has returned datum d
Counted(d) ==
    IF d.expansions > 0
    THEN [data EXCEPT !.episodes = @ + 1, !.expansions = @ + d.expansions]
    ELSE data

\* move_agent that adds a cost of 1 for every move
MovedUnit(dat, point) ==
    [dat EXCEPT !.steps = @ + 1, !.cost = Add(@, One)]

\* Instance::move_agent on the statistics dat
Moved(dat, point) ==
    [dat EXCEPT !.steps = @ + 1, !.cost = Add(@, euclidean(location, point))]

\* The test made on the location before the move
ArrivedBefore(point) == location = target

\* run_once's test that the step just taken ends the run
Arrived(point) == point = target

\* run_trials pushes what run_once returned onto its results
Pushed(datum) ==
    batches' = IF caller = "run_trials" /\ batches # << >>
                  THEN [batches EXCEPT ![Len(batches)].results = Append(@, datum)]
                  ELSE batches

\* The loop body whose move leaves the agent where it is
StepInPlace ==
    /\ pc = "step"
    /\ ret # None
    /\ LET d == ret[1]
           after == Moved(Counted(d), location)
       IN  /\ location' = location
           /\ belief' = look(belief, location)
           /\ log' = Append(log, [from |-> location, action |-> location,
                                  expansions |-> d.expansions])
           /\ IF Arrived(location)
              THEN /\ returned' = Append(returned, Some(after))
                   /\ Pushed(Some(after))
                   /\ data' = DefaultDatum
                   /\ pc' = "idle"
              ELSE /\ returned' = returned
                   /\ UNCHANGED batches
                   /\ data' = after
                   /\ pc' = "act"
    /\ ret' = None
    /\ UNCHANGED <<buildvars, pending, gridvars, scratch, episode, agent, path, target, open,
                   expansions, result, caller, calls>>

\* act returned a step: count it, move, and stop at the target
Step ==
    /\ pc = "step"
    /\ ret # None
    /\ LET d == ret[1]
           after == Moved(Counted(d), d.action)
       IN  /\ location' = d.action
           /\ belief' = look(belief, d.action)
           /\ log' = Append(log, [from |-> location, action |-> d.action,
                                  expansions |-> d.expansions])
           /\ IF Arrived(d.action)
              THEN /\ returned' = Append(returned, Some(after))
                   /\ Pushed(Some(after))
                   /\ data' = DefaultDatum
                   /\ pc' = "idle"
              ELSE /\ returned' = returned
                   /\ UNCHANGED batches
                   /\ data' = after
                   /\ pc' = "act"
    /\ ret' = None
    /\ UNCHANGED <<buildvars, pending, gridvars, scratch, episode, agent, path, target, open,
                   expansions, result, caller, calls>>

\* A run_once that returns the statistics gathered so far when act has
\* returned None
GiveUpWithData ==
    /\ pc = "step"
    /\ ret = None
    /\ returned' = Append(returned, Some(data))
    /\ Pushed(Some(data))
    /\ pc' = "idle"
    /\ UNCHANGED <<buildvars, pending, gridvars, belief, scratch, episode, agent, path, location,
                   data, target, open, expansions, result, ret, caller, calls, log>>

\* act returned None: run_once returns None
GiveUp ==
    /\ pc = "step"
    /\ ret = None
    /\ returned' = Append(returned, None)
    /\ Pushed(None)
    /\ pc' = "idle"
    /\ UNCHANGED <<buildvars, pending, gridvars, belief, scratch, episode, agent, path, location,
                   data, target, open, expansions, result, ret, caller, calls, log>>

(***************************************************************************)
(* Instance::run_trials and build_trials                                   *)
(***************************************************************************)
\* The (start, end) arguments run_trials is called with
Slices == {<<0, 2>>, <<1, 2>>, <<1, 1>>}

\* The seeds run_trials is called with
Seeds == {0, 3}

\* run_trials whose build_trials counts its pairs from start
RunTrialsFromStart(start, end, seed) ==
    /\ pc = "idle"
    /\ pending = << >>
    /\ calls < MaxCalls
    /\ calls' = calls + 1
    /\ bstart' = start
    /\ bend' = end
    /\ rng' = from_seed(seed, height, width)
    /\ trial_idx' = start
    /\ trials' = << >>
    /\ batches' = Append(batches, [start |-> start, end |-> end, seed |-> seed,
                                   built |-> FALSE, trials |-> << >>,
                                   results |-> << >>])
    /\ pc' = "build"
    /\ UNCHANGED <<gridvars, belief, scratch, episode, agent, path, location,
                   data, target, open, expansions, result, ret, caller,
                   returned, log, pending>>

\* run_trials up to build_trials' loop: the seeded generator, no pair yet
RunTrials(start, end, seed) ==
    /\ pc = "idle"
    /\ pending = << >>
    /\ calls < MaxCalls
    /\ calls' = calls + 1
    /\ bstart' = start
    /\ bend' = end
    /\ rng' = from_seed(seed, height, width)
    /\ trial_idx' = 0
    /\ trials' = << >>
    /\ batches' = Append(batches, [start |-> start, end |-> end, seed |-> seed,
                                   built |-> FALSE, trials |-> << >>,
                                   results |-> << >>])
    /\ pc' = "build"
    /\ UNCHANGED <<gridvars, belief, scratch, episode, agent, path, location,
                   data, target, open, expansions, result, ret, caller,
                   returned, log, pending>>

\* The pair is one build_trials keeps, as far as it tells before has_path
Distinct(c) == c.source # c.target /\ passable(c.source) /\ passable(c.target)

\* build_trials' inner loop that keeps a pair whatever has_path returns
BuildCandidateUnchecked ==
    /\ pc = "build"
    /\ trial_idx < bend
    /\ LET c == Candidate(rng)
           found == has_path(c.source, c.target)
       IN  /\ rng' = c.rng
           /\ IF Distinct(c)
              THEN /\ episode' = episode + 1
                   /\ g' = found.st.g
                   /\ h' = found.st.h
                   /\ parent' = found.st.parent
                   /\ visited' = found.st.visited
              ELSE UNCHANGED <<episode, scratch>>
           /\ IF Distinct(c)
              THEN /\ trial_idx' = trial_idx + 1
                   /\ trials' = IF trial_idx >= bstart
                                THEN Append(trials, <<c.source, c.target>>)
                                ELSE trials
              ELSE UNCHANGED <<trial_idx, trials>>
    /\ UNCHANGED <<gridvars, belief, agent, path, location, data, target, pc,
                   open, expansions, result, ret, caller, calls, returned, log,
                   bstart, bend, batchvars>>

\* One iteration of build_trials' inner loop: draw a pair; has_path runs a
\* search when the pair's ends differ and are passable; the pair is kept if
\* has_path finds a path, and pushed if its index is start or more.
BuildCandidate ==
    /\ pc = "build"
    /\ trial_idx < bend
    /\ LET c == Candidate(rng)
           found == has_path(c.source, c.target)
       IN  /\ rng' = c.rng
           /\ IF Distinct(c)
              THEN /\ episode' = episode + 1
                   /\ g' = found.st.g
                   /\ h' = found.st.h
                   /\ parent' = found.st.parent
                   /\ visited' = found.st.visited
              ELSE UNCHANGED <<episode, scratch>>
           /\ IF Distinct(c) /\ found.found
              THEN /\ trial_idx' = trial_idx + 1
                   /\ trials' = IF trial_idx >= bstart
                                THEN Append(trials, <<c.source, c.target>>)
                                ELSE trials
              ELSE UNCHANGED <<trial_idx, trials>>
    /\ UNCHANGED <<gridvars, belief, agent, path, location, data, target, pc,
                   open, expansions, result, ret, caller, calls, returned, log,
                   bstart, bend, batchvars>>

\* build_trials returns its pairs to run_trials
BuildDone ==
    /\ pc = "build"
    /\ trial_idx >= bend
    /\ pending' = trials
    /\ batches' = [batches EXCEPT ![Len(batches)].trials = trials,
                                  ![Len(batches)].built = TRUE]
    /\ pc' = "idle"
    /\ UNCHANGED <<gridvars, belief, scratch, episode, agent, path, location,
                   data, target, open, expansions, result, ret, caller, calls,
                   returned, log, buildvars>>

\* run_trials' loop that takes the pairs from the back
TrialRunReversed ==
    /\ pending # << >>
    /\ RunTrial(pending[Len(pending)][1], pending[Len(pending)][2])
    /\ pending' = SubSeq(pending, 1, Len(pending) - 1)
    /\ UNCHANGED calls

\* The next iteration of run_trials' loop
TrialRun ==
    /\ pending # << >>
    /\ RunTrial(pending[1][1], pending[1][2])
    /\ pending' = Tail(pending)
    /\ UNCHANGED calls

Next ==
    \/ \E s \in Endpoints, t \in Endpoints : RunOnce(s, t)
    \/ \E s \in Endpoints, t \in Endpoints : AnyTrial(s, t)
    \/ ActFollow
    \/ ActSearch
    \/ AstarExpand
    \/ AstarFound
    \/ AstarExhausted
    \/ ActReturn
    \/ Step
    \/ GiveUp

Spec == Init /\ [][Next]_vars

\* The harness that calls run_once and run_trials
NextTrials ==
    \/ pending = << >> /\ \E t \in Endpoints : RunOnce(Point(0, 0), t)
    \/ \E sl \in Slices, seed \in Seeds : RunTrials(sl[1], sl[2], seed)
    \/ BuildCandidate
    \/ BuildDone
    \/ TrialRun
    \/ ActFollow
    \/ ActSearch
    \/ AstarExpand
    \/ AstarFound
    \/ AstarExhausted
    \/ ActReturn
    \/ Step
    \/ GiveUp

SpecTrials == Init /\ [][NextTrials]_vars

(***************************************************************************)
(* The 4x4 grids of the tests                                              *)
(***************************************************************************)
\* The map of the tests of search.rs and instance.rs
TreesMap ==
    << <<".", ".", ".", ".">>,
       <<".", "T", "T", ".">>,
       <<".", "T", "T", ".">>,
       <<".", ".", ".", ".">> >>

\* The same map without its trees
FreeMap ==
    << <<".", ".", ".", ".">>,
       <<".", ".", ".", ".">>,
       <<".", ".", ".", ".">>,
       <<".", ".", ".", ".">> >>

Fixtures == {TreesMap, FreeMap}

\* The terrain grid_from_str gives for the map m
Parsed(m) ==
    [p \in {Point(y, x) : y \in 0..(Len(m) - 1), x \in 0..(Len(m[1]) - 1)}
        |-> ParseTerrain(m[p.y + 1][p.x + 1])]

\* A test's grid, agent and Instance
InitFixture ==
    /\ \E m \in Fixtures :
          /\ height = Len(m)
          /\ width = Len(m[1])
          /\ terrain = Parsed(m)
    /\ belief = [p \in DOMAIN terrain |-> "Unknown"]
    /\ g = [p \in DOMAIN terrain |-> Zero]
    /\ h = [p \in DOMAIN terrain |-> Zero]
    /\ parent = [p \in DOMAIN terrain |-> None]
    /\ visited = [p \in DOMAIN terrain |-> 0]
    /\ episode = 0
    /\ agent \in Agents
    /\ path = None
    /\ location = Point(0, 0)
    /\ data = DefaultDatum
    /\ target = Point(0, 0)
    /\ pc = "idle"
    /\ open = << >>
    /\ expansions = 0
    /\ result = None
    /\ ret = None
    /\ caller = "main"
    /\ calls = 0
    /\ returned = << >>
    /\ log = << >>
    /\ rng = 0
    /\ trial_idx = 0
    /\ trials = << >>
    /\ bstart = 0
    /\ bend = 0
    /\ pending = << >>
    /\ batches = << >>

\* The tests' start
Start == Point(0, 0)

\* The tests' goal
Goal == Point(3, 3)

\* The targets run_once is given: the goal, and a tile of trees
RunTargets == {Goal, Point(1, 1)}

\* The targets astar is given: the start itself, and the goal
SolveTargets == {Start, Goal}

\* astar called as tests::solve_with_astar calls it, with Tile::passable:
\* the whole search, and what it returns
solve_with_astar(source, tgt) ==
    /\ pc = "idle"
    /\ calls < MaxCalls
    /\ calls' = calls + 1
    /\ LET r == Search(Started([g |-> g, h |-> h, parent |-> parent,
                                visited |-> visited], source, tgt, episode + 1),
                       tgt, episode + 1, "passable", 0)
       IN  /\ episode' = episode + 1
           /\ g' = r.st.g
           /\ h' = r.st.h
           /\ parent' = r.st.parent
           /\ visited' = r.st.visited
           /\ result' = IF r.found
                        THEN Some([path |-> PathIn(r.st.parent, tgt),
                                   expansions |-> r.expansions])
                        ELSE None
    /\ UNCHANGED <<gridvars, belief, agent, path, location, data, target, pc,
                   open, expansions, ret, caller, returned, log, buildvars,
                   batchvars>>

\* The tests' calls: run_once and astar from the start
NextFixture ==
    \/ \E t \in RunTargets : RunOnce(Start, t)
    \/ \E t \in SolveTargets : solve_with_astar(Start, t)
    \/ ActFollow
    \/ ActSearch
    \/ AstarExpand
    \/ AstarFound
    \/ AstarExhausted
    \/ ActReturn
    \/ Step
    \/ GiveUp

SpecFixture == InitFixture /\ [][NextFixture]_vars

\* A step of run_once's loop outside astar's expansions: of act, of the end
\* of its search, or of the move
RunStep ==
    \/ ActFollow
    \/ ActSearch
    \/ AstarFound
    \/ AstarExhausted
    \/ ActReturn
    \/ Step
    \/ GiveUp

\* An iteration of astar's loop that pops a point other than the target:
\* the step AstarExpand, told by what it does to the count
Popped ==
    /\ pc = "search"
    /\ open # << >>
    /\ HeapTop(open).point # target
    /\ expansions' = expansions + 1

\* The program runs on: a run_once that has been called takes its next step
SpecLive == SpecFixture /\ WF_vars(RunStep) /\ WF_expansions(Popped)

(***************************************************************************)
(* Properties                                                              *)
(***************************************************************************)
\* Chebyshev distance
Cheb(p, q) == Max(Abs(p.y - q.y), Abs(p.x - q.x))

Adjacent(p, q) == Cheb(p, q) = 1

AllUnknown == [q \in Points |-> "Unknown"]

\* What looking from p is to do to the beliefs bel
Observed(bel, p) ==
    [q \in Points |->
        IF Cheb(p, q) <= 1 /\ bel[q] = "Unknown"
        THEN (IF terrain[q] = "Ground" THEN "Passable" ELSE "Impassable")
        ELSE bel[q]]

\* d <= e
Leq(d, e) == PartialCmp(d, e) # "Greater"

\* The cost of one move between adjacent points
MoveCost(from, to) == IF from.y # to.y /\ from.x # to.x THEN SQRT_2 ELSE One

RECURSIVE SumCost(_)
SumCost(l) ==
    IF l = << >> THEN Zero
    ELSE Add(SumCost(Front(l)), MoveCost(Last(l).from, Last(l).action))

RECURSIVE SumExpansions(_)
SumExpansions(l) ==
    IF l = << >> THEN 0 ELSE SumExpansions(Front(l)) + Last(l).expansions

\* The statistics of a run whose steps were l
Summary(l) ==
    [cost |-> SumCost(l),
     steps |-> Len(l),
     episodes |-> Cardinality({i \in 1..Len(l) : l[i].expansions > 0}),
     expansions |-> SumExpansions(l)]

\* run_once has returned; its value
Returned == pc = "idle" /\ returned # << >>

LastReturned == returned[Len(returned)]

\* The points a walk from p over tiles not believed Impassable reaches
RECURSIVE BelievedReach(_)
BelievedReach(S) ==
    LET more == S \cup {q \in Points : /\ belief[q] # "Impassable"
                                       /\ \E p \in S : Adjacent(p, q)}
    IN  IF more = S THEN S ELSE BelievedReach(more)

\* C1: when RepeatedAstar.act is called with a cached next step whose tile is
\* not believed Impassable, the call pops exactly that step and returns it
\* with expansions = 0, without a search: the episode counter, the scratch
\* fields and the open set are as before the call.
C1_FollowCachedStep ==
    [][ (/\ pc = "act"
         /\ agent = "RepeatedAstar"
         /\ path # None
         /\ path[1] # << >>
         /\ belief[Last(path[1])] # "Impassable")
        => (/\ ret' = Some([action |-> Last(path[1]), expansions |-> 0])
            /\ path' = Some(Front(path[1]))
            /\ pc' = "step"
            /\ episode' = episode
            /\ UNCHANGED <<scratch, open, belief>>) ]_vars

\* C1 witness: a cached step has just been returned, more of the path is left
C1_Witness ==
    /\ pc = "step"
    /\ agent = "RepeatedAstar"
    /\ ret # None
    /\ ret[1].expansions = 0
    /\ path # None
    /\ path[1] # << >>

\* C2: when RepeatedAstar.act is called with no cached path, an exhausted
\* one, or a next step believed Impassable, it starts one A* episode from the
\* current location to the target (a new episode id, the source visited and
\* alone in the open set); no other episode starts before astar returns; and
\* when astar returns, the cached path becomes the result and act returns the
\* first step of the new path (its last element) with the episode's expansion
\* count, or None when astar found no path.
C2_Replan ==
    [][ /\ (/\ pc = "act"
            /\ agent = "RepeatedAstar"
            /\ \/ path = None
               \/ path[1] = << >>
               \/ belief[Last(path[1])] = "Impassable")
           => (/\ pc' = "search"
               /\ episode' = episode + 1
               /\ visited'[location] = episode'
               /\ parent'[location] = None
               /\ g'[location] = Zero
               /\ open' = <<[point |-> location, f |-> octile(location, target),
                             g |-> Zero]>>
               /\ UNCHANGED <<location, target, belief>>)
        /\ (pc = "search" /\ agent = "RepeatedAstar")
           => (/\ pc' \in {"search", "return"}
               /\ UNCHANGED <<episode, location, target, belief, path>>)
        /\ (pc = "return" /\ agent = "RepeatedAstar")
           => (/\ pc' = "step"
               /\ episode' = episode
               /\ IF result = None
                  THEN ret' = None /\ path' = None
                  ELSE IF result[1].path = << >>
                  THEN ret' = None /\ path' = Some(<< >>)
                  ELSE /\ ret' = Some([action |-> Last(result[1].path),
                                       expansions |-> result[1].expansions])
                       /\ path' = Some(Front(result[1].path))) ]_vars

\* C2 witness: in the middle of a run a cached step had become Impassable and
\* the new episode's first step has been returned
C2_Witness ==
    /\ pc = "step"
    /\ agent = "RepeatedAstar"
    /\ data.steps > 0
    /\ ret # None
    /\ ret[1].expansions > 0

\* C3: every look (run_once's look at the source, after the forget when
\* run_trials has called it, and move_agent's look at the new location) sets
\* the Unknown tiles within Chebyshev distance 1 of the point, the point
\* included, to Passable where the terrain is Ground and to Impassable
\* elsewhere; it changes no other belief, and no step changes the terrain or
\* the dimensions.
C3_LookFrame ==
    [][ /\ UNCHANGED gridvars
        /\ (pc = "step" /\ ret # None)
           => belief' = Observed(belief, ret[1].action)
        /\ (pc = "idle" /\ pc' = "act" /\ caller' = "main")
           => belief' = Observed(belief, location')
        /\ (pc = "idle" /\ pc' = "act" /\ caller' = "run_trials")
           => belief' = Observed(AllUnknown, location') ]_vars

\* C3 witness: after a move a look has found a Swamp tile Impassable, has
\* found Ground tiles Passable and has left tiles further away Unknown
C3_Witness ==
    /\ pc = "act"
    /\ log # << >>
    /\ \E q \in Points : terrain[q] = "Swamp" /\ belief[q] = "Impassable"
    /\ \E q \in Points : belief[q] = "Passable"
    /\ \E q \in Points : belief[q] = "Unknown" /\ Cheb(q, location) > 1

\* C4: a belief that is Passable or Impassable is changed by no step other
\* than run_trials' forget (not by a look, a search step or an act); and a
\* second look from the point last looked from changes no belief.
C4_BeliefStable ==
    /\ [][ \/ (pc = "idle" /\ pc' = "act" /\ caller' = "run_trials")
           \/ \A q \in Points : belief[q] # "Unknown" => belief'[q] = belief[q] ]_vars
    /\ [](calls > 0 => look(belief, location) = belief)

\* C4 witness: a second run_once has looked from its source while a tile out
\* of that look's range is still known from the run before
C4_Witness ==
    /\ pc = "act"
    /\ calls = 2
    /\ caller = "main"
    /\ log = << >>
    /\ \E q \in Points : belief[q] # "Unknown" /\ Cheb(q, location) > 1

\* C5: astar returns None exactly when no walk over 8-neighbours leads from
\* the source to the target through tiles that, after the source, are all
\* passable under the predicate (not believed Impassable); otherwise it
\* returns a result with a path.
C5_NoneIffUnreachable ==
    pc = "return" => (result = None <=> target \notin BelievedReach({location}))

\* C5 witness: astar has returned None after visiting tiles beyond the source
C5_Witness ==
    /\ pc = "return"
    /\ result = None
    /\ \E q \in Points : q # location /\ visited[q] = episode

\* C6: a path astar returns for source # target starts with the target, ends
\* with an 8-neighbour of the source, links 8-neighbours, holds only in-bounds
\* tiles that pass the predicate and never the source; for source = target it
\* is empty.
C6_PathShape ==
    (pc = "return" /\ result # None) =>
        LET p == result[1].path
        IN  IF location = target THEN p = << >>
            ELSE /\ p # << >>
                 /\ p[1] = target
                 /\ Adjacent(p[Len(p)], location)
                 /\ \A i \in 1..(Len(p) - 1) : Adjacent(p[i], p[i + 1])
                 /\ \A i \in 1..Len(p) : /\ p[i] \in Points
                                          /\ p[i] # location
                                          /\ belief[p[i]] # "Impassable"

\* C6 witness: astar has returned a path of three steps or more
C6_Witness ==
    /\ pc = "return"
    /\ result # None
    /\ Len(result[1].path) >= 3

\* C7: run_once returns only from its loop: Some(statistics) on the first
\* step act returns that equals the target, None when act returns None, and
\* it goes on with the next act after any other step.  So when it has
\* returned, the value is Some exactly if the last step of the run is the
\* target, and no earlier step of the run is the target.
C7_RunOnceResult ==
    /\ [][ /\ (pc = "step" /\ ret # None /\ ret[1].action = target)
               => (/\ pc' = "idle"
                   /\ Len(returned') = Len(returned) + 1
                   /\ returned'[Len(returned')] # None)
           /\ (pc = "step" /\ ret # None /\ ret[1].action # target)
               => (pc' = "act" /\ returned' = returned)
           /\ (pc = "step" /\ ret = None)
               => (pc' = "idle" /\ returned' = Append(returned, None))
           /\ (pc # "step") => (returned' = returned /\ pc' # "idle") ]_vars
    /\ [](Returned =>
            /\ LastReturned # None <=> (log # << >> /\ Last(log).action = target)
            /\ \A i \in 1..(Len(log) - 1) : log[i].action # target)

\* C7 witness: run_once has returned statistics after two steps or more
C7_Witness ==
    /\ Returned
    /\ LastReturned # None
    /\ Len(log) >= 2

\* C8: the running statistics are those of the steps of this run alone, and
\* so are the statistics a successful run_once returns: steps is the number
\* of steps, cost the sum of the moves' costs, episodes the number of act
\* calls that reported expansions, expansions their sum.
C8_StatisticsOfThisRun ==
    /\ pc \in {"act", "search", "return", "step"} => data = Summary(log)
    /\ (Returned /\ LastReturned # None) => LastReturned[1] = Summary(log)

\* C8 witness: after a run that failed, a second run has succeeded with a
\* cached step among its steps
C8_Witness ==
    /\ Returned
    /\ Len(returned) = 2
    /\ returned[1] = None
    /\ returned[2] # None
    /\ returned[2][1].episodes < returned[2][1].steps

\* C9: AlwaysAstar keeps no path; each of its act calls starts one A* episode
\* from the current location and no further episode starts before astar
\* returns; so in its runs every step counts one episode, and a successful
\* run returns episodes = steps.
C9_AlwaysAstar ==
    /\ [][ agent = "AlwaysAstar" =>
             /\ pc = "act" => (/\ pc' = "search"
                                /\ episode' = episode + 1
                                /\ open' = <<[point |-> location,
                                              f |-> octile(location, target),
                                              g |-> Zero]>>)
             /\ pc # "act" => episode' = episode ]_vars
    /\ [](agent = "AlwaysAstar" =>
             /\ path = None
             /\ pc = "act" => data.episodes = data.steps
             /\ (Returned /\ LastReturned # None)
                   => LastReturned[1].episodes = LastReturned[1].steps)

\* C9 witness: a run of AlwaysAstar has succeeded after three steps or more
C9_Witness ==
    /\ Returned
    /\ agent = "AlwaysAstar"
    /\ LastReturned # None
    /\ LastReturned[1].steps >= 3

\* C10: whenever astar is about to pop, the node pop returns has an f that is
\* less than or equal to the f of every node in the open set.
C10_PopsLeastF ==
    (pc = "search" /\ open # << >>) =>
        \A i \in 1..Len(open) : Leq(HeapTop(open).f, open[i].f)

\* C10 witness: the open set holds three nodes or more, one of them with an f
\* greater than that of the node to pop
C10_Witness ==
    /\ pc = "search"
    /\ Len(open) >= 3
    /\ \E i \in 1..Len(open) : ~Leq(open[i].f, HeapTop(open).f)

\* The nodes of the open set with the f of the node pop returns
TiedWithTop == {i \in 1..Len(open) : open[i].f = HeapTop(open).f}

\* C11 (as claimed): whenever astar is about to pop, the node pop returns has
\* a g that is less than or equal to the g of every node in the open set with
\* the same f, so that of two nodes with equal f the one with the smaller g
\* is popped first.
C11_SmallerGFirst ==
    (pc = "search" /\ open # << >>) =>
        \A i \in TiedWithTop : Leq(HeapTop(open).g, open[i].g)

\* C11 (amended): whenever astar is about to pop, the node pop returns has a
\* g that is greater than or equal to the g of every node in the open set
\* with the same f: of two nodes with equal f in the open set, the one with
\* the larger g is popped first.
C11_LargerGFirst ==
    (pc = "search" /\ open # << >>) =>
        \A i \in TiedWithTop : Leq(open[i].g, HeapTop(open).g)

\* C11 witness: the node to pop shares its f with a node of smaller g
C11_Witness ==
    /\ pc = "search"
    /\ open # << >>
    /\ \E i \in TiedWithTop : ~Leq(HeapTop(open).g, open[i].g)

\* The points a walk from S over Ground tiles reaches
RECURSIVE GroundReach(_)
GroundReach(S) ==
    LET more == S \cup {q \in Points : /\ terrain[q] = "Ground"
                                       /\ \E p \in S : Adjacent(p, q)}
    IN  IF more = S THEN S ELSE GroundReach(more)

\* The pair has distinct ends on Ground that a walk over Ground connects
Solvable(source, tgt) ==
    /\ source # tgt
    /\ terrain[source] = "Ground"
    /\ terrain[tgt] = "Ground"
    /\ tgt \in GroundReach({source})

\* The first n solvable pairs of the generator's stream from state r on
RECURSIVE SolvablePairs(_, _)
SolvablePairs(r, n) ==
    IF n = 0 THEN << >>
    ELSE LET c == Candidate(r)
         IN  IF Solvable(c.source, c.target)
             THEN <<(<<c.source, c.target>>)>> \o SolvablePairs(c.rng, n - 1)
             ELSE SolvablePairs(c.rng, n)

\* The run_trials calls whose build_trials has returned
Built == {i \in 1..Len(batches) : batches[i].built}

\* C12: the pairs build_trials(start, end, seed) returns are those at
\* positions start..end-1 of the pairs build_trials(0, end, seed) returns on
\* the same grid, in the same order, whatever the beliefs, the scratch fields
\* and the episode counter are when either call is made: they are that slice
\* of the first end solvable pairs of the seed's stream, which the terrain
\* alone determines.
C12_BuildTrialsSlice ==
    /\ \A i \in Built :
          batches[i].trials =
              SubSeq(SolvablePairs(from_seed(batches[i].seed, height, width),
                                   batches[i].end),
                     batches[i].start + 1, batches[i].end)
    /\ \A i \in Built, j \in Built :
          (/\ batches[i].start = 0
           /\ batches[i].seed = batches[j].seed
           /\ batches[i].end = batches[j].end)
          => batches[j].trials =
                 SubSeq(batches[i].trials, batches[j].start + 1, batches[j].end)

\* C12 witness: build_trials(1, 2, seed) has returned after the trials of
\* build_trials(0, 2, seed) were run, on a grid whose beliefs those runs have
\* left known, and the two pairs of the seed differ
C12_Witness ==
    \E i \in Built, j \in Built :
        /\ i < j
        /\ batches[i].start = 0 /\ batches[i].end = 2
        /\ batches[j].start = 1 /\ batches[j].end = 2
        /\ batches[i].seed = batches[j].seed
        /\ batches[i].trials[1] # batches[i].trials[2]
        /\ batches[j].trials = <<batches[i].trials[2]>>
        /\ \E q \in Points : belief[q] = "Impassable"
        /\ episode > 2

\* C14: build_trials(start, end, seed) returns exactly end - start pairs, and
\* each has a source other than its target, Ground terrain at both, and a
\* walk over Ground tiles from the source to the target.
C14_TrialsSolvable ==
    \A i \in Built :
        /\ Len(batches[i].trials) = batches[i].end - batches[i].start
        /\ \A k \in 1..Len(batches[i].trials) :
              Solvable(batches[i].trials[k][1], batches[i].trials[k][2])

\* C14 witness: build_trials has returned two pairs after it drew a pair with
\* passable ends that no walk over Ground connects
C14_Witness ==
    /\ calls = 1
    /\ pc = "idle"
    /\ 1 \in Built
    /\ Len(pending) = 2
    /\ episode > 2

\* The run_trials calls that have returned
Complete == {i \in Built : Len(batches[i].results) = Len(batches[i].trials)}

\* C13: the records run_trials(start, end, seed) returns are those at
\* positions start..end-1 of the records run_trials(0, end, seed) returns with
\* the same agent on the same grid, also when both calls are made on one
\* instance, in either order: run_trials(1, 2, seed) returns the one record
\* that is the last of run_trials(0, 2, seed), equal in cost, steps, episodes
\* and expansions.
C13_TrialsSliceStatistics ==
    \A i \in Complete, j \in Complete :
        (/\ batches[i].start = 0
         /\ batches[i].seed = batches[j].seed
         /\ batches[i].end = batches[j].end)
        => batches[j].results =
               SubSeq(batches[i].results, batches[j].start + 1, batches[j].end)

\* C13 witness: run_trials(1, 2, seed) has returned after run_trials(0, 2,
\* seed) on the same instance, its record that of a run of two steps or more
\* with a search after the first
C13_Witness ==
    \E i \in Complete, j \in Complete :
        /\ i < j
        /\ batches[i].start = 0 /\ batches[i].end = 2
        /\ batches[j].start = 1 /\ batches[j].end = 2
        /\ batches[i].seed = batches[j].seed
        /\ batches[j].results[1] # None
        /\ batches[j].results[1] = batches[i].results[2]
        /\ batches[j].results[1][1].steps >= 2
        /\ batches[i].results[1] # batches[i].results[2]

\* The run_trials call under way or last made
Batch == batches[Len(batches)]

\* C15: every trial of run_trials starts from forgotten beliefs: when its
\* run_once reaches the agent, the tiles within Chebyshev distance 1 of the
\* pair's source are known from the terrain and every other tile is Unknown,
\* whatever was known before; the trials are the pairs build_trials returned,
\* run in their order; each run_once return is pushed as the next result,
\* None for a run that failed; and run_trials returns one result per pair.
C15_ForgetThenRunInOrder ==
    /\ [][ (pc = "idle" /\ pc' = "act" /\ caller' = "run_trials") =>
             LET k == Len(Batch.results) + 1
             IN  /\ k <= Len(Batch.trials)
                 /\ location' = Batch.trials[k][1]
                 /\ target' = Batch.trials[k][2]
                 /\ \A q \in Points :
                       belief'[q] = IF Cheb(q, location') > 1 THEN "Unknown"
                                    ELSE IF terrain[q] = "Ground" THEN "Passable"
                                    ELSE "Impassable" ]_vars
    /\ [][ (pc = "step" /\ pc' = "idle" /\ caller = "run_trials") =>
             /\ Len(batches') = Len(batches)
             /\ batches'[Len(batches)] =
                    [Batch EXCEPT !.results =
                        Append(Batch.results, returned'[Len(returned')])]
             /\ target = Batch.trials[Len(Batch.results) + 1][2]
             /\ (ret = None) <=> (returned'[Len(returned')] = None) ]_vars
    /\ [](\A i \in 1..Len(batches) :
             /\ Len(batches[i].results) <= Len(batches[i].trials)
             /\ (pc = "idle" /\ pending = << >>) =>
                   Len(batches[i].results) = batches[i].end - batches[i].start)

\* C15 witness: the second trial of a run_trials call has started, and a tile
\* next to the target of the first trial, which that trial reached, is
\* Unknown again
C15_Witness ==
    /\ pc = "act"
    /\ caller = "run_trials"
    /\ log = << >>
    /\ Len(Batch.results) = 1
    /\ Batch.results[1] # None
    /\ \E q \in Points : /\ Cheb(q, Batch.trials[1][2]) <= 1
                          /\ terrain[q] # "Ground"
                          /\ belief[q] = "Unknown"

\* C16: run_once resets the agent before the first act: when a run reaches
\* its first act RepeatedAstar holds no path, whatever the run before left;
\* the first act of every run starts a search, in a new episode, and the
\* first step of every run comes with expansions > 0.
C16_ResetBeforeRun ==
    /\ [][ (pc = "idle" /\ pc' = "act") => path' = None ]_vars
    /\ [][ (pc = "act" /\ log = << >>) =>
             (pc' = "search" /\ episode' = episode + 1) ]_vars
    /\ [](log # << >> => log[1].expansions > 0)

\* C16 witness: the second run of a RepeatedAstar has taken its first step,
\* after a first run that followed its cached path and reached its target
C16_Witness ==
    /\ agent = "RepeatedAstar"
    /\ calls = 2
    /\ Len(log) = 1
    /\ returned # << >>
    /\ returned[1] # None
    /\ returned[1][1].episodes < returned[1][1].steps

\* The scratch fields of a grid just constructed
FreshScratch ==
    [g |-> [p \in Points |-> Zero], h |-> [p \in Points |-> Zero],
     parent |-> [p \in Points |-> None], visited |-> [p \in Points |-> 0]]

\* What astar returns for the agent's search from source to tgt on a grid
\* just constructed that has the present terrain and beliefs
FreshResult(source, tgt) ==
    LET r == Search(Started(FreshScratch, source, tgt, 1), tgt, 1, "freespace", 0)
    IN  IF r.found
        THEN Some([path |-> PathIn(r.st.parent, tgt), expansions |-> r.expansions])
        ELSE None

\* C17: what astar returns (None, or the path and the expansions) is what it
\* returns on a grid just constructed with the same terrain and beliefs: the
\* g, h, parent and visited that earlier episodes, of agents and of has_path,
\* have left on the tiles and the value of the episode counter do not change
\* it.
C17_AsOnFreshGrid ==
    pc = "return" => result = FreshResult(location, target)

\* C17 witness: astar has returned a path of two steps or more from its
\* third episode or a later one, over tiles that hold a parent from an
\* earlier episode
C17_Witness ==
    /\ pc = "return"
    /\ episode >= 3
    /\ result # None
    /\ Len(result[1].path) >= 2
    /\ \E q \in Points : /\ visited[q] # 0
                          /\ visited[q] < episode
                          /\ parent[q] # None

\* The tiles a step writes a scratch field of
Written == {q \in Points : \/ g'[q] # g[q] \/ h'[q] # h[q]
                           \/ parent'[q] # parent[q] \/ visited'[q] # visited[q]}

\* C18: the episode counter never decreases and changes only when a search
\* is invoked, by act or by has_path for a pair build_trials has not yet
\* rejected, and then by exactly one; every invocation takes its id at its
\* start, before any scratch field is written, and no step of the search
\* takes another; every scratch field written is written on a tile tagged
\* with the id of the search that writes it.  So successive searches have
\* strictly increasing ids and no two share one.
C18_OneEpisodePerSearch ==
    /\ [][ episode' = episode \/ episode' = episode + 1 ]_vars
    /\ [][ (pc = "act" /\ pc' = "search") => episode' = episode + 1 ]_vars
    /\ [][ (pc = "build" /\ rng' # rng) =>
             (episode' = episode + 1 <=> Distinct(Candidate(rng))) ]_vars
    /\ [][ episode' # episode =>
             \/ pc = "act" /\ pc' = "search"
             \/ pc = "build" /\ Distinct(Candidate(rng)) ]_vars
    /\ [][ Written # {} =>
             /\ pc = "search" => episode' = episode
             /\ pc # "search" => episode' = episode + 1
             /\ \A q \in Written : visited'[q] = episode' ]_vars

\* C18 witness: a fourth search or a later one is expanding, after searches
\* of has_path, and tiles hold the tags of two earlier searches
C18_Witness ==
    /\ pc = "search"
    /\ batches # << >>
    /\ episode >= 4
    /\ expansions >= 1
    /\ \E p \in Points, q \in Points :
          /\ 0 < visited[p] /\ visited[p] < visited[q] /\ visited[q] < episode

\* The tiles the last search invoked has visited
Tagged == {q \in Points : episode > 0 /\ visited[q] = episode}

\* Following the parents from q ends at a tile without parent and passes no
\* tile of seen, nor any tile twice
RECURSIVE ReachesRoot(_, _)
ReachesRoot(q, seen) ==
    IF q \in seen THEN FALSE
    ELSE IF parent[q] = None THEN TRUE
    ELSE ReachesRoot(parent[q][1], seen \cup {q})

\* The tile without parent that following the parents from q ends at
RECURSIVE Root(_)
Root(q) == IF parent[q] = None THEN q ELSE Root(parent[q][1])

\* C19: at every point of a search and after it, each tile tagged with the
\* search's episode either has no parent, and is then the source, or has a
\* parent that is tagged with the same episode; following the parents from
\* any such tile repeats no tile and ends at the source.
C19_ParentsLeadToSource ==
    \A q \in Tagged :
        /\ parent[q] # None => parent[q][1] \in Tagged
        /\ ReachesRoot(q, {})
        /\ \A p \in Tagged : Root(p) = Root(q)
        /\ pc \in {"search", "return"} =>
              (/\ Root(q) = location
               /\ parent[q] = None <=> q = location)

\* C19 witness: a search is under way whose visited tiles include one three
\* parents away from the source, on a grid where an earlier search has left
\* other parents
C19_Witness ==
    /\ pc = "search"
    /\ episode >= 2
    /\ \E q \in Tagged :
          /\ parent[q] # None
          /\ parent[parent[q][1]] # None
          /\ parent[parent[parent[q][1]][1]] # None
    /\ \E q \in Points \ Tagged : parent[q] # None

\* p lies in a corner of the grid
Corner(p) == p.y \in {0, height - 1} /\ p.x \in {0, width - 1}

\* p lies on an edge of the grid
Edge(p) == p.y \in {0, height - 1} \/ p.x \in {0, width - 1}

\* C20: each tile visited in the last episode other than its source is a
\* neighbour of its parent, and its g is the parent's g plus sqrt(2) if it
\* is a diagonal neighbour and plus 1 if it is an orthogonal one, wherever
\* the parent lies.
C20_StepCostBySlot ==
    \A q \in Tagged :
        parent[q] # None =>
            /\ Adjacent(parent[q][1], q)
            /\ g[q] = Add(g[parent[q][1]], MoveCost(parent[q][1], q))

\* C20 witness: a search has visited a diagonal and an orthogonal neighbour
\* from a parent in the top left corner, and a diagonal and an orthogonal
\* neighbour from a parent on an edge that is in no corner
C20_Witness ==
    /\ \E q \in Tagged :
          /\ parent[q] = Some(Point(0, 0))
          /\ MoveCost(Point(0, 0), q) = SQRT_2
    /\ \E q \in Tagged :
          /\ parent[q] = Some(Point(0, 0))
          /\ MoveCost(Point(0, 0), q) = One
    /\ \E q \in Tagged :
          /\ parent[q] # None
          /\ Edge(parent[q][1]) /\ ~Corner(parent[q][1])
          /\ MoveCost(parent[q][1], q) = SQRT_2
    /\ \E q \in Tagged :
          /\ parent[q] # None
          /\ Edge(parent[q][1]) /\ ~Corner(parent[q][1])
          /\ MoveCost(parent[q][1], q) = One

\* The tiles whose belief is not Unknown
Known == {q \in Points : belief[q] # "Unknown"}

\* C21: forget leaves no belief but Unknown and changes neither the terrain
\* nor the dimensions: when run_trials has forgotten and its run_once has
\* looked from the source, every tile out of that look's range is Unknown,
\* whatever was believed of it before, the tiles in range hold what the look
\* finds on an Unknown tile, and terrain, height and width are as before.
C21_ForgetFrame ==
    [][ (pc = "idle" /\ pc' = "act" /\ caller' = "run_trials") =>
          /\ \A q \in Points : Cheb(q, location') > 1 => belief'[q] = "Unknown"
          /\ belief' = Observed(AllUnknown, location')
          /\ terrain' = terrain
          /\ height' = height
          /\ width' = width
          /\ DOMAIN belief' = DOMAIN belief ]_vars

\* C21 witness: a trial has started from forgotten beliefs after a run that
\* had looked from a point out of range of the trial's source, on a grid
\* with tiles that are not Ground
C21_Witness ==
    /\ pc = "act"
    /\ caller = "run_trials"
    /\ log = << >>
    /\ returned # << >>
    /\ Len(Batch.results) = 1
    /\ Cheb(Batch.trials[1][1], location) > 1
    /\ belief[Batch.trials[1][1]] = "Unknown"
    /\ \E q \in Points : terrain[q] # "Ground"
    /\ Known # {}

\* The first run_once made on the Instance, from beliefs all Unknown, was
\* from the start to the goal and has returned
FirstRunToGoal ==
    /\ Returned
    /\ Len(returned) = 1
    /\ target = Goal
    /\ log # << >>
    /\ log[1].from = Start

\* 4.0 + SQRT_2
FourPlusSqrt2 == Add(FromInt(4), SQRT_2)

\* C22: on the 4x4 grid with Trees at rows 1-2, columns 1-2, run_once from
\* (0,0) to (3,3) from beliefs all Unknown succeeds with steps = 5 and
\* cost = 4 + sqrt(2) for both agents, with episodes = 5 for AlwaysAstar and
\* episodes = 2 for RepeatedAstar.
C22_TestsOfInstance ==
    (terrain = Parsed(TreesMap) /\ Returned /\ Len(returned) = 1 /\ target = Goal)
    => /\ LastReturned # None
       /\ LastReturned[1].steps = 5
       /\ LastReturned[1].cost = FourPlusSqrt2
       /\ agent = "AlwaysAstar" => LastReturned[1].episodes = 5
       /\ agent = "RepeatedAstar" => LastReturned[1].episodes = 2

\* C22 witness: RepeatedAstar has finished that run on the grid with the
\* trees, with a diagonal move among its steps
C22_Witness ==
    /\ terrain = Parsed(TreesMap)
    /\ FirstRunToGoal
    /\ agent = "RepeatedAstar"
    /\ LastReturned # None
    /\ \E i \in 1..Len(log) : MoveCost(log[i].from, log[i].action) = SQRT_2

\* astar, called with Tile::passable from the start to the goal, has
\* returned a path
Solved == pc = "idle" /\ result # None /\ result[1].path # << >>

\* The first run_once made on the Instance, from the start to the goal, was
\* AlwaysAstar's and has returned
AlwaysRan ==
    /\ agent = "AlwaysAstar"
    /\ Returned
    /\ Len(returned) = 1
    /\ target = Goal

\* C23 (as claimed): on the 4x4 grid without obstacles, the path astar
\* returns from (0,0) to (3,3) has exactly 5 steps, and AlwaysAstar's run
\* between them accumulates a cost of 4 + sqrt(2).
C23_FiveStepsWithoutObstacles ==
    terrain = Parsed(FreeMap) =>
        /\ Solved => Len(result[1].path) = 5
        /\ AlwaysRan => (/\ LastReturned # None
                         /\ LastReturned[1].cost = FourPlusSqrt2)

\* C23 (amended): the path of exactly 5 steps and AlwaysAstar's cost of
\* 4 + sqrt(2) are those on the 4x4 grid with Trees at rows 1-2, columns
\* 1-2; on the 4x4 grid without obstacles the path has 3 steps, all
\* diagonal, and the cost is sqrt(2) + sqrt(2) + sqrt(2).
C23_FiveStepsAroundTrees ==
    /\ terrain = Parsed(TreesMap) =>
          /\ Solved => Len(result[1].path) = 5
          /\ AlwaysRan => (/\ LastReturned # None
                           /\ LastReturned[1].steps = 5
                           /\ LastReturned[1].cost = FourPlusSqrt2)
    /\ terrain = Parsed(FreeMap) =>
          /\ Solved => result[1].path = <<Goal, Point(2, 2), Point(1, 1)>>
          /\ AlwaysRan => (/\ LastReturned # None
                           /\ LastReturned[1].steps = 3
                           /\ LastReturned[1].cost = Add(Add(SQRT_2, SQRT_2), SQRT_2))

\* C23 witness: on the grid with the trees astar has returned its path to
\* the goal, on scratch fields that an earlier search had written
C23_Witness ==
    /\ terrain = Parsed(TreesMap)
    /\ Solved
    /\ result[1].path[1] = Goal
    /\ episode >= 2

\* The points of the grid and those one row or one column beyond it
Probes == {Point(y, x) : y \in 0..height, x \in 0..width}

\* The tiles of the last episode that an expansion has given a child
Expanded == {q \in Tagged : \E r \in Tagged : parent[r] = Some(q)}

\* C24: Grid::get finds no tile for a point whose row is height or more or
\* whose column is width or more, and finds the tile for every point in
\* range: the points it finds a tile for are exactly those that hold a
\* terrain, a belief and scratch fields, and a search that asks for tiles
\* beyond the last row or column fails on none and writes none.
C24_GetInBounds ==
    /\ \A p \in Probes :
          /\ (p.y >= height \/ p.x >= width) => ~InBounds(p)
          /\ (p.y < height /\ p.x < width) => InBounds(p)
          /\ InBounds(p) <=> p \in DOMAIN terrain
    /\ DOMAIN belief = DOMAIN terrain
    /\ DOMAIN g = DOMAIN terrain
    /\ DOMAIN h = DOMAIN terrain
    /\ DOMAIN parent = DOMAIN terrain
    /\ DOMAIN visited = DOMAIN terrain
    /\ \A q \in Tagged : InBounds(q)

\* C24 witness: a search has expanded the tile in the last row and last
\* column, whose neighbour slots hold points beyond both, and has visited a
\* tile in the last row and one in the last column from elsewhere
C24_Witness ==
    /\ pc = "search"
    /\ Point(height - 1, width - 1) \in Expanded
    /\ \E i \in 1..8 : /\ neighbors(Point(height - 1, width - 1))[i] # None
                        /\ ~InBounds(neighbors(Point(height - 1, width - 1))[i][1])
    /\ \E q \in Tagged : q.y = height - 1 /\ parent[q] # None
    /\ \E q \in Tagged : q.x = width - 1 /\ parent[q] # None

\* The points of the nodes in the open set s
PointsOf(s) == {s[i].point : i \in 1..Len(s)}

\* The neighbours of point that an expansion of it is to insert
Insertable(point) ==
    {n \in Points : /\ Adjacent(point, n)
                     /\ visited[n] # episode
                     /\ belief[n] # "Impassable"}

\* C25: an expansion inserts exactly the neighbours of the popped point that
\* are in bounds, not visited in the episode and passable under the
\* predicate, each once, with the popped point as parent, and changes g, h
\* and parent of no tile visited before in the episode; the popped point is
\* not in the open set again.  So the open set holds no point twice, every
\* tile visited is either in it or popped, and no tile is popped twice: the
\* pops counted are the tiles visited less those in the open set.
C25_InsertedOnce ==
    /\ [][ (pc = "search" /\ open # << >> /\ HeapTop(open).point # target) =>
             LET point == HeapTop(open).point
             IN  /\ {q \in Points : visited'[q] = episode} =
                        Tagged \cup Insertable(point)
                 /\ \A n \in Insertable(point) :
                        /\ parent'[n] = Some(point)
                        /\ h'[n] = octile(n, target)
                 /\ PointsOf(open') =
                        (PointsOf(open) \ {point}) \cup Insertable(point)
                 /\ Len(open') = Len(open) - 1 + Cardinality(Insertable(point))
                 /\ \A q \in Tagged : /\ g'[q] = g[q]
                                       /\ h'[q] = h[q]
                                       /\ parent'[q] = parent[q] ]_vars
    /\ [](pc = "search" =>
             /\ Cardinality(PointsOf(open)) = Len(open)
             /\ PointsOf(open) \subseteq Tagged
             /\ expansions = Cardinality(Tagged) - Len(open))

\* C25 witness: an expansion is about to pop a point with a neighbour to
\* insert, a neighbour already popped in the episode and a neighbour still
\* in the open set
C25_Witness ==
    /\ pc = "search"
    /\ open # << >>
    /\ HeapTop(open).point # target
    /\ Insertable(HeapTop(open).point) # {}
    /\ \E q \in Tagged \ PointsOf(open) : Adjacent(q, HeapTop(open).point)
    /\ \E q \in PointsOf(open) : Adjacent(q, HeapTop(open).point)
    /\ \E q \in Points : Adjacent(q, HeapTop(open).point) /\ belief[q] = "Impassable"

\* C26: the expansions astar returns are the nodes it has popped in the
\* episode, the pop of the target included: the count starts at 0, every
\* pop of another point adds one, and the pop of the target returns the
\* count plus one, which is the number of tiles visited and no longer in
\* the open set plus one.  It is 1 when the source is the target, and never
\* more than the number of tiles of the grid.
C26_ExpansionsArePops ==
    /\ [][ /\ (pc = "act" /\ pc' = "search") => expansions' = 0
           /\ (pc = "search" /\ pc' = "search") =>
                 (/\ open # << >>
                  /\ expansions' = expansions + 1)
           /\ (pc = "search" /\ pc' = "return" /\ result' # None) =>
                 (/\ HeapTop(open).point = target
                  /\ result'[1].expansions = expansions + 1
                  /\ result'[1].expansions =
                         Cardinality(Tagged \ PointsOf(open)) + 1) ]_vars
    /\ []((pc = "return" /\ result # None) =>
             /\ result[1].expansions >= 1
             /\ result[1].expansions <= Cardinality(Points)
             /\ location = target => result[1].expansions = 1)
    /\ []((pc = "return" /\ location = target) => result # None)
    /\ [](pc = "search" =>
             /\ expansions = Cardinality(Tagged \ PointsOf(open))
             /\ expansions < Cardinality(Points))

\* C26 witness: astar has returned after five pops, the target's the last,
\* with tiles it had inserted and not popped
C26_Witness ==
    /\ pc = "return"
    /\ result # None
    /\ location # target
    /\ result[1].expansions = 5
    /\ Cardinality(Tagged) > 5

\* C27: in every state, whatever looks, forgets, searches and moves have
\* led to it, a tile believed Passable has the terrain Ground and a tile
\* believed Impassable has another terrain.
C27_BeliefsAreTrue ==
    \A q \in Points :
        /\ belief[q] \in {"Unknown", "Passable", "Impassable"}
        /\ belief[q] = "Passable" => terrain[q] = "Ground"
        /\ belief[q] = "Impassable" => terrain[q] # "Ground"

\* C27 witness: in the second trial of a run_trials call, after its forget
\* and a move, tiles are believed Passable, a tile that is not Ground is
\* believed Impassable, and a tile that is not Ground is Unknown
C27_Witness ==
    /\ caller = "run_trials"
    /\ pc = "act"
    /\ log # << >>
    /\ Len(Batch.results) = 1
    /\ \E q \in Points : belief[q] = "Passable"
    /\ \E q \in Points : belief[q] = "Impassable" /\ terrain[q] # "Ground"
    /\ \E q \in Points : belief[q] = "Unknown"

\* The source the run under way or last made was started on
Source == IF log = << >> THEN location ELSE log[1].from

\* C28: in a run_once started on a Ground tile, every step act returns,
\* from a new search or from the cached path, is a tile of the grid next to
\* the agent's location and of terrain Ground; so every move of the run is
\* one between neighbours onto Ground, and the location is always Ground.
C28_StepsOntoGround ==
    (calls > 0 /\ terrain[Source] = "Ground") =>
        /\ (pc = "step" /\ ret # None) =>
              /\ ret[1].action \in Points
              /\ Adjacent(location, ret[1].action)
              /\ terrain[ret[1].action] = "Ground"
        /\ location \in Points
        /\ terrain[location] = "Ground"
        /\ \A i \in 1..Len(log) :
              /\ Adjacent(log[i].from, log[i].action)
              /\ terrain[log[i].action] = "Ground"
              /\ i > 1 => log[i].from = log[i - 1].action

\* C28 witness: RepeatedAstar has returned a cached step, as its third step
\* or a later one, next to a tile it has found Impassable, after a new
\* search earlier in the run
C28_Witness ==
    /\ agent = "RepeatedAstar"
    /\ pc = "step"
    /\ ret # None
    /\ ret[1].expansions = 0
    /\ Len(log) >= 2
    /\ \E i \in 2..Len(log) : log[i].expansions > 0
    /\ \E q \in Points : Adjacent(q, ret[1].action) /\ belief[q] = "Impassable"

\* C29: a run_once between distinct Ground tiles that a walk over Ground
\* connects never returns None, whatever the beliefs it starts from, those
\* all Unknown included: with either agent every act of the run returns a
\* step, and the value run_once returns is Some.
C29_SolvableRunsSucceed ==
    (calls > 0 /\ Solvable(Source, target)) =>
        /\ pc = "step" => ret # None
        /\ pc = "return" => (result # None /\ result[1].path # << >>)
        /\ Returned => LastReturned # None

\* C29 witness: on a grid with tiles that are not Ground, the first run_once
\* of a RepeatedAstar, from beliefs all Unknown, has returned its
\* statistics after a second search, which a step found blocked made
\* necessary
C29_Witness ==
    /\ Returned
    /\ Len(returned) = 1
    /\ caller = "main"
    /\ agent = "RepeatedAstar"
    /\ Solvable(Source, target)
    /\ LastReturned # None
    /\ LastReturned[1].episodes >= 2
    /\ \E q \in Points : belief[q] = "Impassable"

Corners == Endpoints \cup {Point(height - 1, 0)}

\* A fresh Instance on a map whose upper row has a tile that is not Ground
\* in its middle
InitWalled == Init /\ terrain[Point(0, width \div 2)] # "Ground"

NextCorners ==
    \/ \E s \in Corners, t \in Corners : RunOnce(s, t)
    \/ ActFollow
    \/ ActSearch
    \/ AstarExpand
    \/ AstarFound
    \/ AstarExhausted
    \/ ActReturn
    \/ Step
    \/ GiveUp

SpecCorners == InitWalled /\ [][NextCorners]_vars

\* A number of orthogonal moves and a number of diagonal moves: the cost
\* orth + diag * sqrt(2), kept exact
Moves(a, b) == [orth |-> a, diag |-> b]

\* c costs less than d: c.orth - d.orth < (d.diag - c.diag) * sqrt(2),
\* decided on the integers by the signs and the squares
Cheaper(c, d) ==
    LET m == c.orth - d.orth
        n == d.diag - c.diag
    IN  IF m < 0
        THEN (n >= 0 \/ m * m > 2 * n * n)
        ELSE (n > 0 /\ m * m < 2 * n * n)

\* c with the move from p to q added
Plus(c, p, q) ==
    IF p.y # q.y /\ p.x # q.x
    THEN Moves(c.orth, c.diag + 1)
    ELSE Moves(c.orth + 1, c.diag)

\* The least of a non-empty set of costs
Least(S) == CHOOSE c \in S : \A d \in S : ~Cheaper(d, c)

\* The place of the tile p in a row-major sequence of the tiles, and the
\* tile at the place i
Index(p) == p.y * width + p.x + 1

PointAt(i) == Point((i - 1) \div width, (i - 1) % width)

\* n rounds of relaxation of the costs d, a sequence over the tiles in
\* row-major order, from source: a tile other than the source is entered
\* only if it is not believed Impassable
RECURSIVE Relaxed(_, _, _)
Relaxed(d, source, n) ==
    IF n = 0 THEN d
    ELSE LET e == [i \in 1..Len(d) |->
                    LET q == PointAt(i)
                    IN  IF q = source \/ ~freespace(q) THEN d[i]
                        ELSE LET S == {Plus(d[j][1], PointAt(j), q) :
                                         j \in {k \in 1..Len(d) :
                                                  /\ Adjacent(PointAt(k), q)
                                                  /\ d[k] # None}}
                                      \cup (IF d[i] = None THEN {} ELSE {d[i][1]})
                             IN  IF S = {} THEN None ELSE Some(Least(S))]
         IN  Relaxed(SubSeq(e, 1, Len(d)), source, n - 1)

\* The least cost of an 8-connected path from source to tgt whose tiles
\* after the source are not believed Impassable, None if there is none
Cheapest(source, tgt) ==
    LET d == [i \in 1..(height * width) |->
                IF PointAt(i) = source THEN Some(Moves(0, 0)) ELSE None]
    IN  Relaxed(SubSeq(d, 1, height * width), source, height * width)[Index(tgt)]

\* The moves of the path from source that ends with the steps of p: each
\* step of p is taken from the one after it in p, the last from source
RECURSIVE PathMoves(_, _)
PathMoves(source, p) ==
    IF p = << >> THEN Moves(0, 0)
    ELSE LET from == IF Len(p) = 1 THEN source ELSE p[2]
             rest == PathMoves(source, SubSeq(p, 2, Len(p)))
         IN  Plus(rest, from, p[1])

\* C31 as stated: the path astar returns costs no more than any other
\* 8-connected path from the source to the target over tiles not believed
\* Impassable. It fails on the map ..T. / .... once (0,2) is believed
\* Impassable: from (1,0) to (0,3) astar returns three diagonal moves where
\* two orthogonal moves and one diagonal move suffice.
C31_PathIsCheapest ==
    (pc = "return" /\ result # None) =>
        Cheapest(location, target) = Some(PathMoves(location, result[1].path))

\* C31, amended: the path astar returns is never cheaper than the cheapest
\* 8-connected path from the source to the target over tiles that pass the
\* predicate, and it is the cheapest when every tile of the grid passes the
\* predicate; past an obstacle it may cost more, since a tile keeps the g
\* and the parent of its first insertion.
C31_CheapestWithoutObstacles ==
    (pc = "return" /\ result # None) =>
        LET c == PathMoves(location, result[1].path)
            o == Cheapest(location, target)
        IN  /\ o # None
            /\ ~Cheaper(c, o[1])
            /\ (\A q \in Points : freespace(q)) => c = o[1]

\* C31 witness: with no tile believed Impassable astar has returned a path
\* of three steps or more that has an orthogonal and a diagonal move, and
\* it is the cheapest
C31_Witness ==
    /\ pc = "return"
    /\ result # None
    /\ Len(result[1].path) >= 3
    /\ \A q \in Points : freespace(q)
    /\ PathMoves(location, result[1].path).orth >= 1
    /\ PathMoves(location, result[1].path).diag >= 1
    /\ Cheapest(location, target) = Some(PathMoves(location, result[1].path))

\* Whether a RepeatedAstar with the cached path c returns its next step
\* without a search, by the beliefs alone
Follows(c) ==
    /\ agent = "RepeatedAstar"
    /\ c # None
    /\ c[1] # << >>
    /\ belief[Last(c[1])] # "Impassable"

\* What act returns after a search from location to target, by the beliefs
\* alone: the search is run on scratch fields of its own with the
\* belief-based predicate, and no terrain is read
Searched ==
    LET r == FreshResult(location, target)
    IN  IF r = None \/ r[1].path = << >> THEN None
        ELSE Some(SearchDatum(Last(r[1].path), r[1].expansions))

\* C32: what act returns, the step and the expansions, is a function of the
\* beliefs, the location, the target and the cached path, and the terrain
\* has no part in it. A RepeatedAstar returns its cached step exactly when
\* that step is not believed Impassable, and a search, of either agent,
\* returns what the search by the beliefs alone returns; so on two grids of
\* the same height and width that agree on every belief and differ in
\* terrain the same act returns the same value.
C32_ActReadsBeliefsOnly ==
    [][/\ (pc = "act" /\ pc' = "step") =>
              (Follows(path) /\ ret' = Some(FollowDatum(Last(path[1]))))
       /\ (pc = "act" /\ pc' = "search") => ~Follows(path)
       /\ (pc = "return" /\ pc' = "step") => ret' = Searched]_vars

\* C32 witness: the act of a RepeatedAstar has returned the first step of a
\* path that it has just searched, and the path goes over a tile that is
\* not Ground and whose belief is still Unknown
C32_Witness ==
    /\ pc = "step"
    /\ agent = "RepeatedAstar"
    /\ ret # None
    /\ ret[1].expansions > 0
    /\ path # None
    /\ \E i \in 1..Len(path[1]) : /\ terrain[path[1][i]] # "Ground"
                                  /\ belief[path[1][i]] = "Unknown"

\* C33: run_once(source, target) with source = target returns None and
\* applies no step, with AlwaysAstar and with RepeatedAstar: the run's only
\* search pops the source as the target and returns the empty path, the
\* first act returns no step, the agent stays on the source, the log of
\* moves stays empty, steps and cost (the whole of data) stay at their
\* defaults, and the value returned is None.
C33_NoStepToItself ==
    (calls > 0 /\ Source = target) =>
        /\ log = << >>
        /\ location = target
        /\ data = DefaultDatum
        /\ pc = "return" => result = Some([path |-> << >>, expansions |-> 1])
        /\ pc = "step" => ret = None
        /\ Returned => LastReturned = None

\* C33 witness: after a run that has moved and returned its statistics, a
\* run_once of a RepeatedAstar from a tile to that same tile has returned
\* None
C33_Witness ==
    /\ Returned
    /\ Len(returned) >= 2
    /\ returned[Len(returned) - 1] # None
    /\ returned[Len(returned) - 1][1].steps >= 2
    /\ agent = "RepeatedAstar"
    /\ caller = "main"
    /\ Source = target
    /\ LastReturned = None

====
